---- MODULE Spec2Model ----
(***************************************************************************)
(* llvm-rs-cc driver (src/llvm-rs-cc.cpp): response-file expansion,        *)
(* option resolution, output planning and the single compile call.         *)
(*                                                                         *)
(* A C string is a sequence of one-character strings.  A response file's   *)
(* MemoryBuffer is its content followed by one terminating NUL; a read     *)
(* past that NUL is outside the buffer and its outcome is not fixed by     *)
(* the program: any byte, or a fault.                                      *)
(***************************************************************************)
EXTENDS Integers, Sequences, FiniteSets, TLC

VARIABLES argv, files, pc, i, frames, ArgVector, SavedStrings,
          Inputs, Opts, Diags, IOFiles, DepFiles, Compiled, Printed, status

vars == <<argv, files, pc, i, frames, ArgVector, SavedStrings,
          Inputs, Opts, Diags, IOFiles, DepFiles, Compiled, Printed, status>>

----------------------------------------------------------------------------
(* Bounds of the model.                                                    *)

\* longest generated response-file content, in characters
MaxBufLen == 4
\* bytes past the terminating NUL that may hold something other than NUL
MaxOverrun == 1
\* longest generated run of flag options on the command line
MaxFlags == 2
\* most positional input files on the command line
MaxInputs == 2
\* most raw arguments after the program name in the nested-expansion runs
MaxRaw == 2
\* most words in the generated outer response file
MaxWords == 2

----------------------------------------------------------------------------
(* Characters and strings.                                                 *)

NUL == "NUL"
FAULT == "FAULT"
DQ == "\""
SQ == "'"
BS == "\\"
AT == "@"
SP == " "
OS_PATH_SEPARATOR == "/"

isspace(c) == c \in {" ", "\t", "\n", "\f", "\r"}

RECURSIVE JoinWords(_)
JoinWords(ws) ==
  IF ws = <<>> THEN <<>>
  ELSE IF Len(ws) = 1 THEN ws[1]
  ELSE ws[1] \o <<SP>> \o JoinWords(Tail(ws))

SeqsUpTo(S, n) == UNION {[1..k -> S] : k \in 0..n}

----------------------------------------------------------------------------
(* Inputs: the process arguments and the response files on disk.           *)

Prog == <<"c", "c">>
FileR == <<"R">>
FileS == <<"S">>
FileT == <<"T">>
AtR == <<AT>> \o FileR
AtS == <<AT>> \o FileS
AtT == <<AT>> \o FileT
\* names a file that does not exist
AtN == <<AT, "N">>

\* characters of the generated response-file contents
Alphabet == {"a", SP, DQ, SQ, BS}

\* a "b c" d     and     a\ b
ExampleBufs ==
  { <<"a", SP, DQ, "b", SP, "c", DQ, SP, "d">>,
    <<"a", BS, SP, "b">>,
    <<"a", SP, SP, SQ, "b", DQ, SP, SQ, "c">>,
    <<DQ, "a", BS, DQ, "b", DQ, BS>> }

\* one response file R of arbitrary content, named once on the command line
TokenizerInputs ==
  { [argv |-> <<Prog, AtR>>, files |-> (FileR :> buf)] :
      buf \in SeqsUpTo(Alphabet, MaxBufLen) \cup ExampleBufs }

\* R names S and T, S names T, T names no file: an acyclic set
WordsR == { <<"a">>, AtS, AtT, AtN }
ContentsS == { <<>>, <<"b">>, AtT, <<"b", SP>> \o AtT \o <<SP, "d">>,
               <<DQ>> \o AtT \o <<DQ>>, <<BS>> \o AtT }
ContentsT == { <<"c">>, <<"c", SP, "e">>, <<"c", BS>> }
RawArgs == { <<"x">>, AtR, AtN }

\* every command line and outer file over one inner pair of files, and every
\* inner pair of files under one command line
NestedInputs ==
  { [argv |-> <<Prog>> \o raw,
     files |-> (FileR :> JoinWords(ws)) @@ (FileS :> <<"b", SP>> \o AtT \o <<SP, "d">>)
                 @@ (FileT :> <<"c", SP, "e">>)] :
      raw \in SeqsUpTo(RawArgs, MaxRaw), ws \in SeqsUpTo(WordsR, MaxWords) }
  \cup
  { [argv |-> <<Prog, <<"x">>, AtR, <<"y">> >>,
     files |-> (FileR :> JoinWords(<<w, <<"a">> >>)) @@ (FileS :> s) @@ (FileT :> t)] :
      w \in WordsR, s \in ContentsS, t \in ContentsT }

----------------------------------------------------------------------------
(* ExpandArgv and ExpandArgsFromBuf.                                       *)

SaveStringInSet(saved, S) == saved \cup {S}

\* llvm::MemoryBuffer::getFile fails exactly for a name that is no file
CanOpen(FName) == FName \in DOMAIN files

\* the byte(s) a read of Buf[P] can yield; P counts from 1
ReadAt(Buf, P) ==
  IF P <= Len(Buf) THEN {Buf[P]}
  ELSE IF P = Len(Buf) + 1 THEN {NUL}
  ELSE IF P - (Len(Buf) + 1) <= MaxOverrun THEN Alphabet \cup {NUL, FAULT}
  ELSE {NUL, FAULT}

NewFrame(Arg) ==
  [FName |-> Tail(Arg), P |-> 1, InQuote |-> SP, CurArg |-> <<>>, ret |-> FALSE]

\* the entry of ExpandArgsFromBuf(Arg, ...) with `stk` the callers' frames
EnterExpandArgsFromBuf(Arg, stk) ==
  IF CanOpen(Tail(Arg))
  THEN /\ frames' = Append(stk, NewFrame(Arg))
       /\ UNCHANGED <<ArgVector, SavedStrings>>
  ELSE /\ frames' = stk
       /\ ArgVector' = Append(ArgVector, Arg)
       /\ SavedStrings' = SaveStringInSet(SavedStrings, Arg)

UnchangedDriver ==
  UNCHANGED <<argv, files, Inputs, Opts, Diags, IOFiles, DepFiles, Compiled, Printed, status>>

\* one iteration of ExpandArgv's loop over argv
ExpandArgv ==
  /\ pc = "ExpandArgv" /\ frames = <<>> /\ i < Len(argv)
  /\ LET Arg == argv[i + 1] IN
       IF Arg = <<>> \/ Arg[1] # AT
       THEN /\ ArgVector' = Append(ArgVector, Arg)
            /\ SavedStrings' = SaveStringInSet(SavedStrings, Arg)
            /\ UNCHANGED frames
       ELSE EnterExpandArgsFromBuf(Arg, frames)
  /\ i' = i + 1
  /\ UNCHANGED pc
  /\ UnchangedDriver

Top == frames[Len(frames)]
WithTop(f) == [frames EXCEPT ![Len(frames)] = f]

\* the end of a token: NUL, or white space outside quotes
EndOfToken(f, c) ==
  /\ c = NUL \/ (isspace(c) /\ f.InQuote = SP)
  /\ LET after == [f EXCEPT !.CurArg = <<>>,
                            !.P = IF c = NUL THEN @ ELSE @ + 1,
                            !.ret = (c = NUL)] IN
       IF f.CurArg = <<>>
       THEN /\ frames' = WithTop(after)
            /\ UNCHANGED <<ArgVector, SavedStrings>>
       ELSE IF f.CurArg[1] # AT
       THEN /\ frames' = WithTop(after)
            /\ ArgVector' = Append(ArgVector, f.CurArg)
            /\ SavedStrings' = SaveStringInSet(SavedStrings, f.CurArg)
       ELSE EnterExpandArgsFromBuf(f.CurArg, WithTop(after))
  /\ UNCHANGED pc

\* white space inside quotes
QuotedSpace(f, c) ==
  /\ c # NUL /\ isspace(c) /\ f.InQuote # SP
  /\ frames' = WithTop([f EXCEPT !.CurArg = Append(@, c), !.P = @ + 1])
  /\ UNCHANGED <<ArgVector, SavedStrings, pc>>

\* mutant: a quote character is kept in the token when it opens or closes a quote
QuoteChar_KeepsQuote(f, c) ==
  /\ c \in {DQ, SQ}
  /\ frames' = WithTop([f EXCEPT
        !.InQuote = IF f.InQuote = c THEN SP
                    ELSE IF f.InQuote = SP THEN c ELSE @,
        !.CurArg = Append(@, c),
        !.P = @ + 1])
  /\ UNCHANGED <<ArgVector, SavedStrings, pc>>

QuoteChar(f, c) ==
  /\ c \in {DQ, SQ}
  /\ frames' = WithTop([f EXCEPT
        !.InQuote = IF f.InQuote = c THEN SP
                    ELSE IF f.InQuote = SP THEN c ELSE @,
        !.CurArg = IF f.InQuote # c /\ f.InQuote # SP THEN Append(@, c) ELSE @,
        !.P = @ + 1])
  /\ UNCHANGED <<ArgVector, SavedStrings, pc>>

\* `++P; if (*P != '\0') CurArg.push_back(*P); continue;` and the loop's ++P
Backslash(f, c, d) ==
  /\ c = BS /\ d # FAULT
  /\ frames' = WithTop([f EXCEPT
        !.CurArg = IF d # NUL THEN Append(@, d) ELSE @,
        !.P = @ + 2])
  /\ UNCHANGED <<ArgVector, SavedStrings, pc>>

PlainChar(f, c) ==
  /\ c \notin {NUL, FAULT, DQ, SQ, BS} /\ ~isspace(c)
  /\ frames' = WithTop([f EXCEPT !.CurArg = Append(@, c), !.P = @ + 1])
  /\ UNCHANGED <<ArgVector, SavedStrings, pc>>

\* a read outside the buffer that faults ends the process
Fault(f, c, d) ==
  /\ c = FAULT \/ (c = BS /\ d = FAULT)
  /\ pc' = "Crashed"
  /\ UNCHANGED <<frames, ArgVector, SavedStrings>>

\* one iteration of the tokenizer loop of the innermost ExpandArgsFromBuf
ScanStep ==
  /\ pc = "ExpandArgv" /\ frames # <<>> /\ ~Top.ret
  /\ \E c \in ReadAt(files[Top.FName], Top.P),
        d \in ReadAt(files[Top.FName], Top.P + 1) :
       \/ EndOfToken(Top, c)
       \/ QuotedSpace(Top, c)
       \/ QuoteChar(Top, c)
       \/ Backslash(Top, c, d)
       \/ PlainChar(Top, c)
       \/ Fault(Top, c, d)
  /\ UNCHANGED i
  /\ UnchangedDriver

\* `break` out of the loop: ExpandArgsFromBuf returns to its caller
ExpandReturn ==
  /\ pc = "ExpandArgv" /\ frames # <<>> /\ Top.ret
  /\ frames' = SubSeq(frames, 1, Len(frames) - 1)
  /\ UNCHANGED <<i, pc, ArgVector, SavedStrings>>
  /\ UnchangedDriver

\* ExpandArgv has returned to main
ExpandDone ==
  /\ pc = "ExpandArgv" /\ frames = <<>> /\ i = Len(argv)
  /\ pc' = "ParseArguments"
  /\ UNCHANGED <<i, frames, ArgVector, SavedStrings>>
  /\ UnchangedDriver

----------------------------------------------------------------------------
(* The option table (RSCCOptions.inc) and the command lines of the runs.   *)

Name_o == <<"-", "o">>
Name_M == <<"-", "M">>
Name_MD == <<"-", "M", "D">>
Name_emit_asm == <<"-", "e", "m", "i", "t", "-", "a", "s", "m">>
Name_emit_llvm == <<"-", "e", "m", "i", "t", "-", "l", "l", "v", "m">>
Name_emit_bc == <<"-", "e", "m", "i", "t", "-", "b", "c">>
Name_emit_nothing == <<"-", "e", "m", "i", "t", "-", "n", "o", "t", "h", "i", "n", "g">>
Name_output_dep_dir == <<"-", "o", "u", "t", "p", "u", "t", "-", "d", "e", "p", "-", "d", "i", "r">>
Name_bitcode_storage == <<"-", "b", "i", "t", "c", "o", "d", "e", "-", "s", "t", "o", "r", "a", "g", "e">>
Name_help == <<"-", "h", "e", "l", "p">>
Name_version == <<"-", "v", "e", "r", "s", "i", "o", "n">>

Str_foo_rs == <<"f", "o", "o", ".", "r", "s">>
Str_bar_rs == <<"b", "a", "r", ".", "r", "s">>
Str_out == <<"o", "u", "t">>
Str_dep == <<"d", "e", "p">>
Str_ar == <<"a", "r">>
Str_jc == <<"j", "c">>
Str_zz == <<"z", "z">>
Str_unknown == <<"-", "x">>
Suffix_d == <<".", "d">>
Suffix_S == <<".", "S">>
Suffix_ll == <<".", "l", "l">>
Suffix_o == <<".", "o">>
Suffix_bc == <<".", "b", "c">>
DevNull == <<"/", "d", "e", "v", "/", "n", "u", "l", "l">>

OptionTable ==
  { [Name |-> Name_o, ID |-> "OPT_o", Kind |-> "Separate", Group |-> "OPT_INVALID"],
    [Name |-> Name_M, ID |-> "OPT_M", Kind |-> "Flag", Group |-> "OPT_M_Group"],
    [Name |-> Name_MD, ID |-> "OPT_MD", Kind |-> "Flag", Group |-> "OPT_M_Group"],
    [Name |-> Name_emit_asm, ID |-> "OPT_emit_asm", Kind |-> "Flag",
     Group |-> "OPT_Output_Type_Group"],
    [Name |-> Name_emit_llvm, ID |-> "OPT_emit_llvm", Kind |-> "Flag",
     Group |-> "OPT_Output_Type_Group"],
    [Name |-> Name_emit_bc, ID |-> "OPT_emit_bc", Kind |-> "Flag",
     Group |-> "OPT_Output_Type_Group"],
    [Name |-> Name_emit_nothing, ID |-> "OPT_emit_nothing", Kind |-> "Flag",
     Group |-> "OPT_Output_Type_Group"],
    [Name |-> Name_output_dep_dir, ID |-> "OPT_output_dep_dir", Kind |-> "Separate",
     Group |-> "OPT_INVALID"],
    [Name |-> Name_bitcode_storage, ID |-> "OPT_bitcode_storage", Kind |-> "Separate",
     Group |-> "OPT_INVALID"],
    [Name |-> Name_help, ID |-> "OPT_help", Kind |-> "Flag", Group |-> "OPT_INVALID"],
    [Name |-> Name_version, ID |-> "OPT_version", Kind |-> "Flag",
     Group |-> "OPT_INVALID"] }

FlagArgs ==
  { Name_M, Name_MD, Name_emit_asm, Name_emit_llvm, Name_emit_bc, Name_emit_nothing,
    Name_help, Name_version, Str_unknown }

\* option-with-value runs; the last one leaves -o without its value
ValueArgs ==
  { <<>>,
    <<Name_o, Str_out>>,
    <<Name_o, Str_out \o <<OS_PATH_SEPARATOR>> >>,
    <<Name_o, Str_out \o <<OS_PATH_SEPARATOR, OS_PATH_SEPARATOR>> >>,
    <<Name_o, Str_out, Name_output_dep_dir, Str_dep>>,
    <<Name_output_dep_dir, Str_out, Name_output_dep_dir, Str_dep>>,
    <<Name_bitcode_storage, Str_jc>>,
    <<Name_bitcode_storage, Str_zz>>,
    <<Name_o>> }

InputArgs == { Str_foo_rs, Str_bar_rs }

\* every run of flags before the inputs, and every option with a value after
\* at most one flag
OptionInputs ==
  { [argv |-> <<Prog>> \o fl \o ins, files |-> <<>>] :
      fl \in SeqsUpTo(FlagArgs, MaxFlags), ins \in SeqsUpTo(InputArgs, MaxInputs) }
  \cup
  { [argv |-> <<Prog>> \o fl \o va \o ins, files |-> <<>>] :
      fl \in {<<>>} \cup {<<f>> : f \in FlagArgs}, va \in ValueArgs,
      ins \in SeqsUpTo(InputArgs, MaxInputs) }

----------------------------------------------------------------------------
(* ParseArguments.                                                         *)

RSCCOptions ==
  [mOutputDir |-> <<>>, mOutputType |-> "OT_Bitcode", mOutputDep |-> FALSE,
   mOutputDepDir |-> <<>>, mBitcodeStorage |-> "BCST_APK_RESOURCE",
   mShowHelp |-> FALSE, mShowVersion |-> FALSE]

IDOf(name) == (CHOOSE o \in OptionTable : o.Name = name).ID
KindOf(name) == (CHOOSE o \in OptionTable : o.Name = name).Kind

\* OptTable::ParseArgs over Args[Index..]: the parsed arguments so far are acc
RECURSIVE ParseArgs(_, _, _)
ParseArgs(Args, Index, acc) ==
  IF Index > Len(Args)
  THEN [Args |-> acc, MissingArgIndex |-> 0, MissingArgCount |-> 0]
  ELSE LET Str == Args[Index] IN
    IF Str = <<>> THEN ParseArgs(Args, Index + 1, acc)
    ELSE IF Str[1] # "-" \/ Len(Str) = 1
    THEN ParseArgs(Args, Index + 1,
                   Append(acc, [ID |-> "OPT_INPUT", Value |-> Str, Spelling |-> Str]))
    ELSE IF \A o \in OptionTable : o.Name # Str
    THEN ParseArgs(Args, Index + 1,
                   Append(acc, [ID |-> "OPT_UNKNOWN", Value |-> Str, Spelling |-> Str]))
    ELSE IF KindOf(Str) = "Flag"
    THEN ParseArgs(Args, Index + 1,
                   Append(acc, [ID |-> IDOf(Str), Value |-> <<>>, Spelling |-> Str]))
    ELSE IF Index + 1 > Len(Args)
    THEN [Args |-> acc, MissingArgIndex |-> Index, MissingArgCount |-> 1]
    ELSE ParseArgs(Args, Index + 2,
                   Append(acc, [ID |-> IDOf(Str), Value |-> Args[Index + 1],
                                Spelling |-> Str]))

Matching(Args, ids) == SelectSeq(Args, LAMBDA A : A.ID \in ids)
GroupMembers(group) == {o.ID : o \in {t \in OptionTable : t.Group = group}}

hasArg(Args, id) == Matching(Args, {id}) # <<>>
\* mutant: the first argument of the group wins
LastArgIn_First(Args, ids) ==
  LET m == Matching(Args, ids) IN IF m = <<>> THEN <<>> ELSE <<m[1]>>

\* ArgList::getLastArg for one option or for a group; <<>> stands for NULL
LastArgIn(Args, ids) ==
  LET m == Matching(Args, ids) IN IF m = <<>> THEN <<>> ELSE <<m[Len(m)]>>
getLastArgValue(Args, id, Default) ==
  LET A == LastArgIn(Args, {id}) IN IF A = <<>> THEN Default ELSE A[1].Value

MTypeOf(id) == IF id = "OPT_M" THEN "OT_Dependency" ELSE "OT_Bitcode"

OutputTypeOf(id) ==
  CASE id = "OPT_emit_asm" -> "OT_Assembly"
    [] id = "OPT_emit_llvm" -> "OT_LLVMAssembly"
    [] id = "OPT_emit_bc" -> "OT_Bitcode"
    [] id = "OPT_emit_nothing" -> "OT_Nothing"

\* mutant: -emit-nothing is let through with dependency output
BadCombination_AllowsNothing(OutputDep, OutputType) ==
  OutputDep /\ OutputType \notin {"OT_Bitcode", "OT_Dependency", "OT_Nothing"}

\* the combination check of lines 235-237
BadCombination(OutputDep, OutputType) ==
  OutputDep /\ OutputType # "OT_Bitcode" /\ OutputType # "OT_Dependency"

BitcodeStorageOf(Value, Default) ==
  IF Value = Str_ar THEN "BCST_APK_RESOURCE"
  ELSE IF Value = Str_jc THEN "BCST_JAVA_CODE" ELSE Default

\* the options ParseArguments resolves from the parsed arguments
ResolveOptions(Args, O) ==
  LET M == LastArgIn(Args, GroupMembers("OPT_M_Group"))
      T == LastArgIn(Args, GroupMembers("OPT_Output_Type_Group"))
      OutputDir == getLastArgValue(Args, "OPT_o", <<>>)
      AfterM == IF M = <<>> THEN O.mOutputType ELSE MTypeOf(M[1].ID)
  IN [mOutputDir |-> OutputDir,
      mOutputType |-> IF T = <<>> THEN AfterM ELSE OutputTypeOf(T[1].ID),
      mOutputDep |-> IF M = <<>> THEN O.mOutputDep ELSE TRUE,
      mOutputDepDir |-> getLastArgValue(Args, "OPT_output_dep_dir", OutputDir),
      mBitcodeStorage |->
        BitcodeStorageOf(getLastArgValue(Args, "OPT_bitcode_storage", <<>>),
                         O.mBitcodeStorage),
      mShowHelp |-> hasArg(Args, "OPT_help"),
      mShowVersion |-> hasArg(Args, "OPT_version")]

\* the diagnostics ParseArguments reports, in the order it reports them
ReportedBy(Parsed, O) ==
  LET BSV == getLastArgValue(Parsed.Args, "OPT_bitcode_storage", <<>>) IN
  (IF Parsed.MissingArgCount # 0 THEN <<"err_drv_missing_argument">> ELSE <<>>)
  \o [k \in 1..Len(Matching(Parsed.Args, {"OPT_UNKNOWN"})) |->
        "err_drv_unknown_argument"]
  \o (IF BadCombination(O.mOutputDep, O.mOutputType)
      THEN <<"err_drv_argument_not_allowed_with">> ELSE <<>>)
  \o (IF BSV \notin {Str_ar, Str_jc, <<>>} THEN <<"err_drv_invalid_value">> ELSE <<>>)

InputsOf(Args) ==
  LET ins == Matching(Args, {"OPT_INPUT"}) IN [k \in 1..Len(ins) |-> ins[k].Value]

UnchangedExpansion == UNCHANGED <<argv, files, frames, ArgVector>>

ParseArguments ==
  /\ pc = "ParseArguments"
  /\ IF Len(ArgVector) > 1
     THEN LET Parsed == ParseArgs(Tail(ArgVector), 1, <<>>)
              O == ResolveOptions(Parsed.Args, Opts)
          IN /\ Opts' = O
             /\ Inputs' = Inputs \o InputsOf(Parsed.Args)
             /\ Diags' = Diags \o ReportedBy(Parsed, O)
     ELSE UNCHANGED <<Opts, Inputs, Diags>>
  /\ pc' = "Parsed"
  /\ UNCHANGED <<i, SavedStrings, IOFiles, DepFiles, Compiled, Printed, status>>
  /\ UnchangedExpansion

----------------------------------------------------------------------------
(* DetermineOutputFile.                                                    *)

LastIndexOf(s, c, none) ==
  LET hits == {k \in 1..Len(s) : s[k] = c} IN
    IF hits = {} THEN none ELSE CHOOSE k \in hits : \A j \in hits : j <= k

\* RSSlangReflectUtils::GetFileNameStem: the file name without its directory
\* and without its extension
GetFileNameStem(fileName) ==
  SubSeq(fileName, LastIndexOf(fileName, OS_PATH_SEPARATOR, 0) + 1,
         LastIndexOf(fileName, ".", Len(fileName) + 1) - 1)

\* RSSlangReflectUtils::BCFileNameFromRSFileName: the same transform
BCFileNameFromRSFileName(rsFileName) == GetFileNameStem(rsFileName)

\* mutant: the separator is appended to every non-empty directory
WithSeparator_Always(OutputFile) ==
  IF OutputFile # <<>> THEN Append(OutputFile, OS_PATH_SEPARATOR) ELSE OutputFile

\* "Append '/' to Opts.mOutputDir if not presents"
WithSeparator(OutputFile) ==
  IF OutputFile # <<>> /\ OutputFile[Len(OutputFile)] # OS_PATH_SEPARATOR
  THEN Append(OutputFile, OS_PATH_SEPARATOR) ELSE OutputFile

SuffixOf(OutputType) ==
  CASE OutputType = "OT_Dependency" -> Suffix_d
    [] OutputType = "OT_Assembly" -> Suffix_S
    [] OutputType = "OT_LLVMAssembly" -> Suffix_ll
    [] OutputType = "OT_Object" -> Suffix_o
    [] OutputType = "OT_Bitcode" -> Suffix_bc

DetermineOutputFile(OutputDir, InputFile, OutputType) ==
  IF OutputType = "OT_Nothing" THEN DevNull
  ELSE WithSeparator(OutputDir)
       \o (IF OutputType = "OT_Dependency" THEN GetFileNameStem(InputFile)
           ELSE BCFileNameFromRSFileName(InputFile))
       \o SuffixOf(OutputType)

\* the strings DetermineOutputFile interns: "/dev/null" is a literal
SavedBy(saved, path) == IF path = DevNull THEN saved ELSE SaveStringInSet(saved, path)

----------------------------------------------------------------------------
(* main after ParseArguments.                                              *)

\* mutant: main does not look at the diagnostics
hasErrorOccurred_Never == FALSE

hasErrorOccurred == Diags # <<>>

Exit(code) == pc' = "Exit" /\ status' = code

UnchangedPlan == UNCHANGED <<i, SavedStrings, Inputs, Opts, IOFiles, DepFiles, Compiled>>

\* "Exits when there's any error occurred during parsing the arguments"
ExitOnError ==
  /\ pc = "Parsed" /\ hasErrorOccurred
  /\ Exit(1)
  /\ UNCHANGED <<Diags, Printed>> /\ UnchangedPlan /\ UnchangedExpansion

PrintHelp ==
  /\ pc = "Parsed" /\ ~hasErrorOccurred /\ Opts.mShowHelp
  /\ Printed' = Append(Printed, "help")
  /\ Exit(0)
  /\ UNCHANGED Diags /\ UnchangedPlan /\ UnchangedExpansion

VersionPrinter ==
  /\ pc = "Parsed" /\ ~hasErrorOccurred /\ ~Opts.mShowHelp /\ Opts.mShowVersion
  /\ Printed' = Append(Printed, "version")
  /\ Exit(0)
  /\ UNCHANGED Diags /\ UnchangedPlan /\ UnchangedExpansion

NoInputFiles ==
  /\ pc = "Parsed" /\ ~hasErrorOccurred /\ ~Opts.mShowHelp /\ ~Opts.mShowVersion
  /\ Inputs = <<>>
  /\ Diags' = Append(Diags, "err_drv_no_input_files")
  /\ Exit(1)
  /\ UNCHANGED Printed /\ UnchangedPlan /\ UnchangedExpansion

\* the lists are created and the compiler is initialised
PrepareCompiler ==
  /\ pc = "Parsed" /\ ~hasErrorOccurred /\ ~Opts.mShowHelp /\ ~Opts.mShowVersion
  /\ Inputs # <<>>
  /\ pc' = "Plan" /\ i' = 0 /\ IOFiles' = <<>> /\ DepFiles' = <<>>
  /\ UNCHANGED <<SavedStrings, Inputs, Opts, Diags, Compiled, Printed, status>>
  /\ UnchangedExpansion

\* mutant: the bitcode slot is always planned afresh in the dependency directory
BCOutputFileOf_Recomputed(O, InputFile, OutputFile) ==
  DetermineOutputFile(O.mOutputDepDir, InputFile, "OT_Bitcode")

\* the bitcode slot of an input's dependency pair
BCOutputFileOf(O, InputFile, OutputFile) ==
  IF O.mOutputType = "OT_Bitcode" THEN OutputFile
  ELSE DetermineOutputFile(O.mOutputDepDir, InputFile, "OT_Bitcode")

\* mutant: the dependency slot is planned in the output directory
DepOutputFileOf_InOutputDir(O, InputFile, OutputFile) ==
  IF O.mOutputType = "OT_Dependency" THEN OutputFile
  ELSE DetermineOutputFile(O.mOutputDir, InputFile, "OT_Dependency")

\* the dependency slot of an input's dependency pair
DepOutputFileOf(O, InputFile, OutputFile) ==
  IF O.mOutputType = "OT_Dependency" THEN OutputFile
  ELSE DetermineOutputFile(O.mOutputDepDir, InputFile, "OT_Dependency")

\* one iteration of the loop over Inputs
PlanOutputs ==
  /\ pc = "Plan" /\ i # Len(Inputs)
  /\ LET InputFile == Inputs[i + 1]
         OutputFile == DetermineOutputFile(Opts.mOutputDir, InputFile, Opts.mOutputType)
         BCOutputFile == BCOutputFileOf(Opts, InputFile, OutputFile)
         DepOutputFile == DepOutputFileOf(Opts, InputFile, OutputFile)
     IN /\ IF Opts.mOutputDep
           THEN /\ DepFiles' = Append(DepFiles, <<BCOutputFile, DepOutputFile>>)
                /\ SavedStrings' =
                     SavedBy(SavedBy(SavedBy(SavedStrings, OutputFile), BCOutputFile),
                             DepOutputFile)
           ELSE /\ UNCHANGED DepFiles
                /\ SavedStrings' = SavedBy(SavedStrings, OutputFile)
        /\ IOFiles' = Append(IOFiles, <<InputFile, OutputFile>>)
  /\ i' = i + 1
  /\ UNCHANGED <<pc, Inputs, Opts, Diags, Compiled, Printed, status>>
  /\ UnchangedExpansion

\* mutant: the collaborator's answer is returned without the negation
CompileFailed_NotNegated(ok) == IF ok THEN 1 ELSE 0

\* `int CompileFailed = !Compiler->compile(...)`
CompileFailed(ok) == IF ok THEN 0 ELSE 1

\* "Let's rock!": the compile collaborator answers success or failure
Compile ==
  /\ pc = "Plan" /\ i = Len(Inputs)
  /\ \E ok \in BOOLEAN :
       /\ Compiled' = Append(Compiled,
            [IOFiles |-> IOFiles, DepFiles |-> DepFiles,
             OutputType |-> Opts.mOutputType, OutputDep |-> Opts.mOutputDep,
             BitcodeStorage |-> Opts.mBitcodeStorage, ok |-> ok])
       /\ Exit(CompileFailed(ok))
  /\ UNCHANGED <<i, SavedStrings, Inputs, Opts, Diags, IOFiles, DepFiles, Printed>>
  /\ UnchangedExpansion

----------------------------------------------------------------------------

AllInputs == TokenizerInputs \cup NestedInputs \cup OptionInputs

Init ==
  /\ \E in \in AllInputs : argv = in.argv /\ files = in.files
  /\ pc = "ExpandArgv" /\ i = 0 /\ frames = <<>>
  /\ ArgVector = <<>> /\ SavedStrings = {}
  /\ Inputs = <<>> /\ Opts = RSCCOptions /\ Diags = <<>>
  /\ IOFiles = <<>> /\ DepFiles = <<>> /\ Compiled = <<>>
  /\ Printed = <<>> /\ status = -1

Next ==
  \/ ExpandArgv \/ ScanStep \/ ExpandReturn \/ ExpandDone
  \/ ParseArguments
  \/ ExitOnError \/ PrintHelp \/ VersionPrinter \/ NoInputFiles
  \/ PrepareCompiler \/ PlanOutputs \/ Compile

Spec == Init /\ [][Next]_vars

----------------------------------------------------------------------------
(* What the specification says the expander yields, stated without the     *)
(* scanner: first every character of a content is resolved to the piece    *)
(* it contributes, then the pieces are cut at the separators.              *)

Separator == <<>>

\* the pieces of buf[k..] read in quote mode q: <<c>> for a character kept
\* in a token, Separator for white space outside quotes
RECURSIVE Resolved(_, _, _)
Resolved(buf, k, q) ==
  IF k > Len(buf) THEN <<>>
  ELSE LET c == buf[k] IN
    IF c = BS
    THEN IF k = Len(buf) THEN <<>>
         ELSE << <<buf[k + 1]>> >> \o Resolved(buf, k + 2, q)
    ELSE IF c \in {DQ, SQ}
    THEN IF q = "none" THEN Resolved(buf, k + 1, c)
         ELSE IF q = c THEN Resolved(buf, k + 1, "none")
         ELSE << <<c>> >> \o Resolved(buf, k + 1, q)
    ELSE IF isspace(c) /\ q = "none"
    THEN <<Separator>> \o Resolved(buf, k + 1, q)
    ELSE << <<c>> >> \o Resolved(buf, k + 1, q)

\* the non-empty maximal runs of kept characters between separators
RECURSIVE Runs(_, _)
Runs(pieces, cur) ==
  IF pieces = <<>> THEN (IF cur = <<>> THEN <<>> ELSE <<cur>>)
  ELSE IF Head(pieces) = Separator
  THEN (IF cur = <<>> THEN <<>> ELSE <<cur>>) \o Runs(Tail(pieces), <<>>)
  ELSE Runs(Tail(pieces), cur \o Head(pieces))

RefTokens(buf) == Runs(Resolved(buf, 1, "none"), <<>>)

\* the content ends in a backslash that no earlier backslash escapes
RECURSIVE TrailingBackslashes(_)
TrailingBackslashes(buf) ==
  IF buf = <<>> \/ buf[Len(buf)] # BS THEN 0
  ELSE 1 + TrailingBackslashes(SubSeq(buf, 1, Len(buf) - 1))

LoneTrailingBackslash(buf) == TrailingBackslashes(buf) % 2 = 1

IsResponseArg(Arg) == Arg # <<>> /\ Arg[1] = AT

\* the left-to-right, depth-first flattening of a list of arguments
RECURSIVE Flatten(_)
Flatten(args) ==
  IF args = <<>> THEN <<>>
  ELSE (IF IsResponseArg(Head(args)) /\ CanOpen(Tail(Head(args)))
        THEN Flatten(RefTokens(files[Tail(Head(args))]))
        ELSE <<Head(args)>>)
       \o Flatten(Tail(args))

Expanded == pc \notin {"ExpandArgv", "Crashed"}

Range(q) == {q[k] : k \in DOMAIN q}

\* the response files named directly on the command line
NamedFiles == {Tail(a) : a \in {b \in Range(argv) : IsResponseArg(b) /\ CanOpen(Tail(b))}}

----------------------------------------------------------------------------
(* C3: for every raw argument list and every acyclic set of response       *)
(* files, ExpandArgv yields exactly the left-to-right, depth-first         *)
(* flattening of the input: plain arguments verbatim, each @file replaced   *)
(* in place by that file's expanded tokens, an unopenable @path kept as    *)
(* the literal token.                                                      *)
C3_ExpandArgvIsFlattening == Expanded => ArgVector = Flatten(argv)

(* C4: for every response-file buffer, also one that ends in a backslash,  *)
(* the scan position never moves past the buffer's terminating NUL, the    *)
(* trailing backslash adds nothing to the token and the pending token is   *)
(* still emitted.                                                          *)
C4_ScanStopsAtTerminator ==
  /\ \A k \in DOMAIN frames : frames[k].P <= Len(files[frames[k].FName]) + 1
  /\ pc # "Crashed"
  /\ (Expanded /\ argv = <<Prog, AtR>> /\ CanOpen(FileR)
        /\ \A t \in Range(RefTokens(files[FileR])) : ~IsResponseArg(t))
       => ArgVector = <<Prog>> \o RefTokens(files[FileR])

(* C5: a response-file content without nested @ tokens, in which every     *)
(* backslash is followed by a character, is tokenized by the shell-like    *)
(* rules: white space outside quotes separates tokens and yields no empty  *)
(* token, a quote is closed by the same unescaped quote character and      *)
(* keeps white space and the other quote character, the quote characters   *)
(* themselves are dropped, and a backslash keeps the next character.       *)
(* `a "b c" d` yields a, b c, d and `a\ b` yields the one token `a b`.     *)
PlainContent(buf) ==
  /\ ~LoneTrailingBackslash(buf)
  /\ \A t \in Range(RefTokens(buf)) : ~IsResponseArg(t)

RECURSIVE ExpandPlain(_)
ExpandPlain(args) ==
  IF args = <<>> THEN <<>>
  ELSE (IF IsResponseArg(Head(args)) /\ CanOpen(Tail(Head(args)))
        THEN RefTokens(files[Tail(Head(args))]) ELSE <<Head(args)>>)
       \o ExpandPlain(Tail(args))

C5_ShellLikeTokens ==
  /\ (Expanded /\ \A f \in NamedFiles : PlainContent(files[f]))
       => ArgVector = ExpandPlain(argv)
  /\ RefTokens(<<"a", SP, DQ, "b", SP, "c", DQ, SP, "d">>)
       = << <<"a">>, <<"b", SP, "c">>, <<"d">> >>
  /\ RefTokens(<<"a", BS, SP, "b">>) = << <<"a", SP, "b">> >>

C5_Witness ==
  /\ pc = "Exit" /\ argv = <<Prog, AtR>> /\ CanOpen(FileR)
  /\ files[FileR] = <<"a", SP, DQ, "b", SP, "c", DQ, SP, "d">>
  /\ ArgVector = <<Prog, <<"a">>, <<"b", SP, "c">>, <<"d">> >>

----------------------------------------------------------------------------
(* The command line as the claims read it.                                 *)

Options == Tail(ArgVector)
OptionsResolved == pc \in {"Parsed", "Plan", "Exit"}

DepModeNames == {Name_M, Name_MD}
OutputKindNames == {Name_emit_asm, Name_emit_llvm, Name_emit_bc, Name_emit_nothing}

\* the position of the last of the options `names` on the command line, or 0
LastPosition(names) ==
  LET at == {k \in DOMAIN Options : Options[k] \in names} IN
    IF at = {} THEN 0 ELSE CHOOSE k \in at : \A j \in at : j <= k

\* the value given to the last `name value` pair on the command line
LastValue(name, Default) ==
  LET at == {k \in DOMAIN Options : Options[k] = name /\ k < Len(Options)} IN
    IF at = {} THEN Default
    ELSE Options[(CHOOSE k \in at : \A j \in at : j <= k) + 1]

Given(name) == \E k \in DOMAIN Options : Options[k] = name

ResolutionErrors == SelectSeq(Diags, LAMBDA d : d # "err_drv_no_input_files")

DependencyKinds == {"OT_Bitcode", "OT_Dependency"}
OutputKinds ==
  {"OT_Dependency", "OT_Assembly", "OT_LLVMAssembly", "OT_Object", "OT_Bitcode",
   "OT_Nothing"}

----------------------------------------------------------------------------
(* C1: compile is invoked at most once, and only after a resolution with   *)
(* no error, with neither help nor version requested and with at least     *)
(* one input, every input's outputs planned; after a resolution that       *)
(* reported an error no output path is planned and compile is not invoked. *)
C1_CompileOnceAfterCleanResolution ==
  /\ Len(Compiled) <= 1
  /\ (pc = "Plan" \/ IOFiles # <<>> \/ DepFiles # <<>> \/ Compiled # <<>>)
       => /\ ResolutionErrors = <<>>
          /\ ~Given(Name_help) /\ ~Given(Name_version)
          /\ Inputs # <<>>
  /\ Compiled # <<>>
       => /\ Len(Compiled[1].IOFiles) = Len(Inputs)
          /\ \A k \in DOMAIN Inputs : Compiled[1].IOFiles[k][1] = Inputs[k]
  /\ (OptionsResolved /\ ResolutionErrors # <<>>)
       => /\ IOFiles = <<>> /\ DepFiles = <<>> /\ Compiled = <<>>
          /\ SavedStrings \subseteq Range(ArgVector)

C1_Witness ==
  /\ Len(Compiled) = 1 /\ Len(Inputs) = 2 /\ Len(Compiled[1].IOFiles) = 2

(* C2: ParseArguments reports the invalid-combination error exactly when   *)
(* the resolved dependency-output flag is set and the resolved output kind *)
(* is neither Bitcode nor Dependency; where outputs are planned or compile *)
(* is invoked, dependency output implies kind Bitcode or Dependency.       *)
C2_InvalidCombinationExactly ==
  /\ OptionsResolved =>
       (("err_drv_argument_not_allowed_with" \in Range(Diags))
          <=> (Opts.mOutputDep /\ Opts.mOutputType \notin DependencyKinds))
  /\ (pc = "Plan" \/ IOFiles # <<>> \/ Compiled # <<>>)
       => (Opts.mOutputDep => Opts.mOutputType \in DependencyKinds)

C2_Witness ==
  /\ pc = "Exit" /\ Options = <<Name_M, Name_emit_asm>>
  /\ "err_drv_argument_not_allowed_with" \in Range(Diags)
  /\ IOFiles = <<>>

(* C6: on a command line of -M, -MD and -emit-* options (and inputs) the   *)
(* last member of each group wins: the output kind is that of the last     *)
(* output-kind option if there is one, otherwise Dependency after a last   *)
(* -M and Bitcode after a last -MD, otherwise Bitcode; the dependency      *)
(* flag is set exactly when -M or -MD is present.                          *)
KindNamed(name) ==
  CASE name = Name_emit_asm -> "OT_Assembly"
    [] name = Name_emit_llvm -> "OT_LLVMAssembly"
    [] name = Name_emit_bc -> "OT_Bitcode"
    [] name = Name_emit_nothing -> "OT_Nothing"

OnlyKindOptionsAndInputs ==
  \A k \in DOMAIN Options :
    Options[k] \in DepModeNames \cup OutputKindNames
      \/ (Options[k] # <<>> /\ Options[k][1] # "-")

C6_LastOfGroupWins ==
  (OptionsResolved /\ OnlyKindOptionsAndInputs) =>
    LET t == LastPosition(OutputKindNames)
        m == LastPosition(DepModeNames)
    IN /\ Opts.mOutputType =
            IF t # 0 THEN KindNamed(Options[t])
            ELSE IF m # 0 /\ Options[m] = Name_M THEN "OT_Dependency"
            ELSE "OT_Bitcode"
       /\ Opts.mOutputDep = (m # 0)

C6_Witness ==
  /\ pc = "Parsed" /\ Options = <<Name_emit_bc, Name_emit_asm>>
  /\ Opts.mOutputType = "OT_Assembly" /\ ~Opts.mOutputDep

(* C7, as claimed: for every output directory D the path is D normalized   *)
(* to end with exactly one separator (nothing for an empty D), the base    *)
(* name, the kind's suffix; kind Nothing gives the null sink.              *)
RECURSIVE StripSeparators(_)
StripSeparators(D) ==
  IF D = <<>> \/ D[Len(D)] # OS_PATH_SEPARATOR THEN D
  ELSE StripSeparators(SubSeq(D, 1, Len(D) - 1))

ExactlyOneSeparator(D) ==
  IF D = <<>> THEN <<>> ELSE Append(StripSeparators(D), OS_PATH_SEPARATOR)

BaseName(InputFile, Kind) ==
  IF Kind = "OT_Dependency" THEN GetFileNameStem(InputFile)
  ELSE BCFileNameFromRSFileName(InputFile)

EndsWith(s, t) == Len(s) >= Len(t) /\ SubSeq(s, Len(s) - Len(t) + 1, Len(s)) = t

C7_ExactlyOneSeparator ==
  \A k \in DOMAIN IOFiles :
    LET InputFile == IOFiles[k][1]
        Path == IOFiles[k][2]
        Rest == BaseName(InputFile, Opts.mOutputType) \o SuffixOf(Opts.mOutputType)
    IN IF Opts.mOutputType = "OT_Nothing" THEN Path = DevNull
       ELSE /\ Path = ExactlyOneSeparator(Opts.mOutputDir) \o Rest
            /\ ~EndsWith(SubSeq(Path, 1, Len(Path) - Len(Rest)),
                         <<OS_PATH_SEPARATOR, OS_PATH_SEPARATOR>>)

(* C7, amended: the path is D, followed by one separator exactly when D is *)
(* not empty and does not already end with one, followed by the base name  *)
(* and the kind's suffix; `out` and `out/` give the same path, and the     *)
(* directory part ends in a doubled separator only if D itself does; kind  *)
(* Nothing gives the null sink whatever D and the input are.               *)
C7_SeparatorAddedWhenMissing ==
  \A k \in DOMAIN IOFiles :
    LET InputFile == IOFiles[k][1]
        D == Opts.mOutputDir
    IN
    /\ IOFiles[k][2] = DetermineOutputFile(D, InputFile, Opts.mOutputType)
    /\ DetermineOutputFile(D, InputFile, "OT_Nothing") = DevNull
    /\ \A K \in OutputKinds \ {"OT_Nothing"} :
         LET Path == DetermineOutputFile(D, InputFile, K)
             Rest == BaseName(InputFile, K) \o SuffixOf(K)
             Dir == SubSeq(Path, 1, Len(Path) - Len(Rest))
         IN /\ EndsWith(Path, Rest) /\ Path = Dir \o Rest
            /\ Dir \in {D, Append(D, OS_PATH_SEPARATOR)}
            /\ (Dir = D) <=> (D = <<>> \/ D[Len(D)] = OS_PATH_SEPARATOR)
            /\ EndsWith(Dir, <<OS_PATH_SEPARATOR, OS_PATH_SEPARATOR>>)
                 => EndsWith(D, <<OS_PATH_SEPARATOR, OS_PATH_SEPARATOR>>)
            /\ DetermineOutputFile(Str_out, InputFile, K)
                 = DetermineOutputFile(Append(Str_out, OS_PATH_SEPARATOR), InputFile, K)
            /\ EndsWith(Path, CASE K = "OT_Dependency" -> Suffix_d
                                [] K = "OT_Assembly" -> Suffix_S
                                [] K = "OT_LLVMAssembly" -> Suffix_ll
                                [] K = "OT_Object" -> Suffix_o
                                [] K = "OT_Bitcode" -> Suffix_bc)

C7_Witness ==
  /\ Opts.mOutputDir = Append(Str_out, OS_PATH_SEPARATOR)
  /\ Opts.mOutputType = "OT_Bitcode"
  /\ IOFiles # <<>>
  /\ IOFiles[1] = <<Str_foo_rs, Str_out \o <<OS_PATH_SEPARATOR, "f", "o", "o">> \o Suffix_bc>>

HasNoSeparator(s) == \A k \in DOMAIN s : s[k] # OS_PATH_SEPARATOR

\* path is a file directly in directory D
LocatedIn(path, D) ==
  LET Dir == IF D = <<>> \/ D[Len(D)] = OS_PATH_SEPARATOR THEN D
             ELSE Append(D, OS_PATH_SEPARATOR)
  IN /\ Len(path) > Len(Dir)
     /\ SubSeq(path, 1, Len(Dir)) = Dir
     /\ HasNoSeparator(SubSeq(path, Len(Dir) + 1, Len(path)))

DepDirIsLastGiven ==
  OptionsResolved =>
    Opts.mOutputDepDir = LastValue(Name_output_dep_dir, LastValue(Name_o, <<>>))

C9_DependencyOutputsInDepDir ==
  /\ DepDirIsLastGiven
  /\ Opts.mOutputDep =>
       \A k \in DOMAIN DepFiles :
         /\ LocatedIn(DepFiles[k][1], Opts.mOutputDepDir)
         /\ LocatedIn(DepFiles[k][2], Opts.mOutputDepDir)

(* C9, amended: the dependency-output directory is the value of the last   *)
(* -output-dep-dir, or of -o without one; with dependency output, of every *)
(* input's dependency pair the slot of the primary output kind is the      *)
(* primary output, which lies in the output directory (-o), and the other  *)
(* slot lies in the dependency-output directory.                           *)
C9_CompanionSlotInDepDir ==
  /\ DepDirIsLastGiven
  /\ Opts.mOutputDep =>
       \A k \in DOMAIN DepFiles :
         /\ Opts.mOutputType = "OT_Bitcode" =>
              /\ DepFiles[k][1] = IOFiles[k][2]
              /\ LocatedIn(DepFiles[k][1], Opts.mOutputDir)
              /\ LocatedIn(DepFiles[k][2], Opts.mOutputDepDir)
         /\ Opts.mOutputType = "OT_Dependency" =>
              /\ DepFiles[k][2] = IOFiles[k][2]
              /\ LocatedIn(DepFiles[k][2], Opts.mOutputDir)
              /\ LocatedIn(DepFiles[k][1], Opts.mOutputDepDir)

C9_Witness ==
  /\ Compiled # <<>> /\ Opts.mOutputDep /\ Opts.mOutputType = "OT_Bitcode"
  /\ Opts.mOutputDir = Str_out /\ Opts.mOutputDepDir = Str_dep
  /\ DepFiles # <<>>
  /\ LocatedIn(DepFiles[1][1], Str_out) /\ LocatedIn(DepFiles[1][2], Str_dep)

(* C10: the exit status is 1 if resolution reported an error (also with    *)
(* -help or -version given, and then nothing is printed); otherwise 0 if   *)
(* help was requested, help before version, or version was requested,      *)
(* with or without inputs; otherwise 1 with the no-input error if there is *)
(* no input; otherwise 1 if compile failed and 0 if it succeeded.  Nothing *)
(* is done twice.                                                          *)
C10_ExitStatusOrder ==
  /\ pc = "Exit" =>
       IF ResolutionErrors # <<>>
       THEN status = 1 /\ Printed = <<>> /\ Compiled = <<>> /\ Diags = ResolutionErrors
       ELSE IF Given(Name_help)
       THEN status = 0 /\ Printed = <<"help">> /\ Compiled = <<>> /\ Diags = <<>>
       ELSE IF Given(Name_version)
       THEN status = 0 /\ Printed = <<"version">> /\ Compiled = <<>> /\ Diags = <<>>
       ELSE IF Inputs = <<>>
       THEN status = 1 /\ Printed = <<>> /\ Compiled = <<>>
            /\ Diags = <<"err_drv_no_input_files">>
       ELSE /\ Len(Compiled) = 1 /\ Printed = <<>> /\ Diags = <<>>
            /\ status = IF Compiled[1].ok THEN 0 ELSE 1
  /\ pc # "Exit" => status = -1
  /\ Len(Compiled) <= 1 /\ Len(Printed) <= 1

C10_Witness ==
  /\ pc = "Exit" /\ status = 1 /\ Given(Name_help) /\ Given(Str_unknown)
  /\ Printed = <<>>

====
